---- MODULE Spec2Model ----
(***************************************************************************)
(* ilib-lint: the term-presence rule (ResourceDNTTerms), the declarative   *)
(* pattern rule (DeclarativeResourceRule) and the project's file-type      *)
(* resolution (Project), modelled as state machines.                       *)
(*                                                                         *)
(* Text is a sequence of one-character strings.  A JavaScript value is a   *)
(* record tagged with its kind: undefined, number, string, array, object.  *)
(* An object's own enumerable properties are the sequence of its entries   *)
(* in insertion order; Object.values, Object.entries and for..in enumerate *)
(* the keys that are array indices first, in ascending order, and then the *)
(* other keys in insertion order (forIn).                                  *)
(***************************************************************************)
EXTENDS Integers, Sequences, FiniteSets, TLC

(* ------------------------------ bounds -------------------------------- *)

\* longest source/target text and longest term, in characters
MaxTextLen == 2
\* longest explicit term list
MaxTerms == 2
\* longest source/target array
MaxItems == 2
\* most categories in one plural mapping
MaxCats == 2
\* longest term file, in characters, among the files enumerated exhaustively
MaxFileLen == 5
\* most entries of config.filetypes and of config.paths
MaxFileTypes == 2
MaxMappings == 2
\* longest pattern string, in characters, and longest pattern list
MaxPatternLen == 2
MaxPatterns == 2
\* longest list one checkString call returns
MaxReturned == 2
\* most calls in progress on one rule at a time
MaxCallers == 2
\* most directory items added to a project
MaxFiles == 3

(* --------------------------- general helpers -------------------------- *)

SeqsUpTo(S, n) == UNION {[1..k -> S] : k \in 0..n}

Range(seq) == {seq[i] : i \in 1..Len(seq)}

RECURSIVE Flatten(_)
Flatten(seqs) ==
    IF seqs = <<>> THEN <<>> ELSE Head(seqs) \o Flatten(Tail(seqs))

Distinct(seq) == \A i, j \in 1..Len(seq) : i /= j => seq[i] /= seq[j]

(* --------------------------- JavaScript values ------------------------ *)

Undefined == [kind |-> "undefined"]
Number1 == [kind |-> "number"]
Str(s) == [kind |-> "string", s |-> s]
Arr(items) == [kind |-> "array", items |-> items]
Obj(entries) == [kind |-> "object", entries |-> entries]

\* "string" === typeof v
IsString(v) == v.kind = "string"
\* Array.isArray(v)
IsArray(v) == v.kind = "array"
\* v instanceof Object
InstanceOfObject(v) == v.kind \in {"array", "object"}

\* Object.entries(v) of an object or an array (whose keys are its indices)
ObjectEntries(v) ==
    IF v.kind = "object" THEN v.entries
    ELSE [i \in 1..Len(v.items) |-> [k |-> "index", v |-> v.items[i]]]

\* Object.values(v)
ObjectValues(v) == [i \in 1..Len(ObjectEntries(v)) |-> ObjectEntries(v)[i].v]

\* String.prototype.includes: scan the start positions from the left
RECURSIVE includesFrom(_, _, _)
includesFrom(s, term, i) ==
    IF i + Len(term) - 1 > Len(s) THEN FALSE
    ELSE IF SubSeq(s, i, i + Len(term) - 1) = term THEN TRUE
    ELSE includesFrom(s, term, i + 1)

includes(s, term) == includesFrom(s, term, 1)

(* ------------------ ResourceDNTTerms: matching ------------------------ *)

\* ResourcePlural.validPluralCategories
validPluralCategories == {"zero", "one", "two", "few", "many", "other"}

\* the template literal `Missing term: <e0>${term}</e0>`
Highlight(term) == <<"Missing term: <e0>">> \o term \o <<"</e0>">>

\* the value a method returns: a list, or undefined
Returned(list) == [defined |-> TRUE, list |-> list]
ReturnedUndefined == [defined |-> FALSE, list |-> <<>>]

RECURSIVE matchStringFrom(_, _, _, _)
matchStringFrom(terms, i, source, target) ==
    IF i > Len(terms) THEN <<>>
    ELSE (IF includes(source, terms[i]) /\ ~includes(target, terms[i])
          THEN <<[source |-> source, highlight |-> Highlight(terms[i])]>>
          ELSE <<>>)
         \o matchStringFrom(terms, i + 1, source, target)

_matchString_targetIgnored(terms, source, target) ==
    matchStringFrom(terms, 1, source, <<>>)

_matchString(terms, source, target) == matchStringFrom(terms, 1, source, target)

\* target[idx] ?? ""
targetItem(target, idx) == IF idx <= Len(target) THEN target[idx] ELSE <<>>

RECURSIVE matchArrayFrom(_, _, _, _)
matchArrayFrom(terms, idx, source, target) ==
    IF idx > Len(source) THEN <<>>
    ELSE _matchString(terms, source[idx], targetItem(target, idx))
         \o matchArrayFrom(terms, idx + 1, source, target)

_matchArray_commonPrefix(terms, source, target) ==
    matchArrayFrom(terms, 1,
                   SubSeq(source, 1, IF Len(target) < Len(source) THEN Len(target) ELSE Len(source)),
                   target)

_matchArray(terms, source, target) == matchArrayFrom(terms, 1, source, target)

\* Array.prototype.find: the first item that includes the term, if any
RECURSIVE findIncluding(_, _, _)
findIncluding_last(items, term, i) ==
    LET hits == {j \in i..Len(items) : includes(items[j], term)}
    IN IF hits = {} THEN [found |-> FALSE, item |-> <<>>]
       ELSE [found |-> TRUE, item |-> items[CHOOSE j \in hits : \A k \in hits : k <= j]]

findIncluding(items, term, i) ==
    IF i > Len(items) THEN [found |-> FALSE, item |-> <<>>]
    ELSE IF includes(items[i], term) THEN [found |-> TRUE, item |-> items[i]]
    ELSE findIncluding(items, term, i + 1)

RECURSIVE matchPluralFrom(_, _, _, _)
matchPluralFrom(terms, i, sourceItems, targetItems) ==
    IF i > Len(terms) THEN <<>>
    ELSE LET matchingSourceItem == findIncluding(sourceItems, terms[i], 1)
         IN (IF matchingSourceItem.found
                /\ ~(\A j \in 1..Len(targetItems) : includes(targetItems[j], terms[i]))
             THEN <<[source |-> matchingSourceItem.item, highlight |-> Highlight(terms[i])]>>
             ELSE <<>>)
            \o matchPluralFrom(terms, i + 1, sourceItems, targetItems)

\* the texts of the values of a mapping all of whose values are strings
TextsOf(values) == [i \in 1..Len(values) |-> values[i].s]

_matchPlural_perCategory(terms, source, target) ==
    Flatten([j \in 1..Len(ObjectValues(target)) |->
        matchPluralFrom(terms, 1, TextsOf(ObjectValues(source)),
                        <<TextsOf(ObjectValues(target))[j]>>)])

_matchPlural(terms, source, target) ==
    matchPluralFrom(terms, 1, TextsOf(ObjectValues(source)), TextsOf(ObjectValues(target)))

stringTypeOk(source, target) == IsString(source) /\ IsString(target)

arrayTypeOk(source, target) ==
    /\ IsArray(source)
    /\ \A i \in 1..Len(source.items) : IsString(source.items[i])
    /\ IsArray(target)
    /\ \A i \in 1..Len(target.items) : IsString(target.items[i])

pluralTypeOk(source, target) ==
    /\ InstanceOfObject(source)
    /\ InstanceOfObject(target)
    /\ LET entries == ObjectEntries(source) \o ObjectEntries(target)
       IN \A i \in 1..Len(entries) :
              entries[i].k \in validPluralCategories /\ IsString(entries[i].v)

_matchResource_uncheckedTypes(terms, resource) ==
    LET source == resource.source
        target == resource.target
    IN CASE resource.type = "string" ->
              IF ~IsString(source) THEN ReturnedUndefined
              ELSE Returned(_matchString(terms, source.s,
                                         IF IsString(target) THEN target.s ELSE <<>>))
         [] resource.type = "array" ->
              IF ~arrayTypeOk(source, target) THEN Returned(<<>>)
              ELSE Returned(_matchArray(terms, TextsOf(source.items), TextsOf(target.items)))
         [] resource.type = "plural" ->
              IF ~pluralTypeOk(source, target) THEN Returned(<<>>)
              ELSE Returned(_matchPlural(terms, source, target))
         [] OTHER -> ReturnedUndefined

_matchResource(terms, resource) ==
    LET source == resource.source
        target == resource.target
    IN CASE resource.type = "string" ->
              IF ~stringTypeOk(source, target) THEN ReturnedUndefined
              ELSE Returned(_matchString(terms, source.s, target.s))
         [] resource.type = "array" ->
              IF ~arrayTypeOk(source, target) THEN ReturnedUndefined
              ELSE Returned(_matchArray(terms, TextsOf(source.items), TextsOf(target.items)))
         [] resource.type = "plural" ->
              IF ~pluralTypeOk(source, target) THEN ReturnedUndefined
              ELSE Returned(_matchPlural(terms, source, target))
         [] OTHER -> ReturnedUndefined

\* new Result({ ...resultProps, ...partialResult })
NewResult(call, partialResult) ==
    [id |-> call.resource.key,
     rule |-> "resource-dnt-terms",
     pathName |-> call.file,
     locale |-> call.locale,
     severity |-> "error",
     description |-> "A DNT term is missing in target string.",
     source |-> partialResult.source,
     highlight |-> partialResult.highlight]

\* this._matchResource(resource)?.map(...)
match(terms, call) ==
    LET partialResults == _matchResource(terms, call.resource)
    IN IF partialResults.defined
       THEN Returned([i \in 1..Len(partialResults.list) |->
                         NewResult(call, partialResults.list[i])])
       ELSE ReturnedUndefined

\* One match call in progress: where it stands ("called", "looping", "returned"), its
\* argument, the source item and the term its loops have reached, its local
\* partialResults, and what it returned.
Frame(pc, call, idx, i, partialResults, returned) ==
    [pc |-> pc, call |-> call, idx |-> idx, i |-> i,
     partialResults |-> partialResults, returned |-> returned]

\* the type checks of _matchResource, up to the call of _matchString, _matchArray or
\* _matchPlural
enter(frame) ==
    LET resource == frame.call.resource
        ok == CASE resource.type = "string" -> stringTypeOk(resource.source, resource.target)
                [] resource.type = "array" -> arrayTypeOk(resource.source, resource.target)
                [] resource.type = "plural" -> pluralTypeOk(resource.source, resource.target)
                [] OTHER -> FALSE
    IN IF ok THEN [frame EXCEPT !.pc = "looping", !.idx = 1, !.i = 1]
       ELSE [frame EXCEPT !.pc = "returned", !.returned = ReturnedUndefined]

\* return partialResults, and the map over it in match
leave(frame, partialResults) ==
    [frame EXCEPT !.pc = "returned",
                  !.returned = Returned([n \in 1..Len(partialResults) |->
                                            NewResult(frame.call, partialResults[n])])]

\* one iteration of the loop over this._dntTerms (for an array, inside the loop over the
\* source items), or the return after the last one; partialResults is read and written
\* where the caller keeps it
iterate(terms, frame, partialResults) ==
    LET resource == frame.call.resource
        source == resource.source
        target == resource.target
    IN CASE resource.type = "string" ->
              IF frame.i > Len(terms) THEN [frame |-> leave(frame, partialResults),
                                            partialResults |-> partialResults]
              ELSE [frame |-> [frame EXCEPT !.i = @ + 1],
                    partialResults |->
                        partialResults \o _matchString(<<terms[frame.i]>>, source.s, target.s)]
         [] resource.type = "array" ->
              IF frame.idx > Len(source.items)
              THEN [frame |-> leave(frame, partialResults), partialResults |-> partialResults]
              ELSE IF frame.i > Len(terms)
              THEN [frame |-> [frame EXCEPT !.idx = @ + 1, !.i = 1],
                    partialResults |-> partialResults]
              ELSE [frame |-> [frame EXCEPT !.i = @ + 1],
                    partialResults |->
                        partialResults
                        \o _matchString(<<terms[frame.i]>>, source.items[frame.idx].s,
                                        targetItem(TextsOf(target.items), frame.idx))]
         [] OTHER ->
              IF frame.i > Len(terms) THEN [frame |-> leave(frame, partialResults),
                                            partialResults |-> partialResults]
              ELSE [frame |-> [frame EXCEPT !.i = @ + 1],
                    partialResults |->
                        partialResults \o _matchPlural(<<terms[frame.i]>>, source, target)]

(* ------------------ ResourceDNTTerms: construction -------------------- *)

\* A file is the text fs.readFileSync returns, or does not exist (the read throws).
File(text) == [exists |-> TRUE, text |-> text]
NoFile == [exists |-> FALSE, text |-> <<>>]

LineBreaks == {"\n", "\r"}
Blanks == {" ", "\n", "\r"}
JsonPunct == {"[", "]", ",", "{", "}", ":"}

\* what a step that may throw produces
Ok(terms) == [threw |-> FALSE, error |-> "", terms |-> terms]
Threw(error) == [threw |-> TRUE, error |-> error, terms |-> <<>>]

\* JSON.parse, first half: the tokens of the text (strings carry their content)
Tok(t, s) == [t |-> t, s |-> s]
LexFail == [ok |-> FALSE, toks |-> <<>>]

RECURSIVE closingQuote(_, _)
closingQuote(text, i) ==
    IF i > Len(text) \/ text[i] \in LineBreaks THEN 0
    ELSE IF text[i] = "\"" THEN i
    ELSE closingQuote(text, i + 1)

RECURSIVE lexFrom(_, _)
lexFrom(text, i) ==
    IF i > Len(text) THEN [ok |-> TRUE, toks |-> <<>>]
    ELSE IF text[i] \in Blanks THEN lexFrom(text, i + 1)
    ELSE IF text[i] \in JsonPunct \cup {"1"}
         THEN LET rest == lexFrom(text, i + 1)
              IN [ok |-> rest.ok, toks |-> <<Tok(text[i], <<>>)>> \o rest.toks]
    ELSE IF text[i] = "\""
         THEN LET j == closingQuote(text, i + 1)
              IN IF j = 0 THEN LexFail
                 ELSE LET rest == lexFrom(text, j + 1)
                      IN [ok |-> rest.ok,
                          toks |-> <<Tok("str", SubSeq(text, i + 1, j - 1))>> \o rest.toks]
    ELSE LexFail

\* JSON.parse, second half: value := string | 1 | [ value,* ] | { string : value,* }
ParseFail == [ok |-> FALSE, value |-> Undefined, next |-> 0]
Parsed(value, next) == [ok |-> TRUE, value |-> value, next |-> next]
TokAt(toks, i) == IF i <= Len(toks) THEN toks[i].t ELSE "end"

RECURSIVE parseValue(_, _), parseElements(_, _), parseMembers(_, _)
parseValue(toks, i) ==
    CASE TokAt(toks, i) = "str" -> Parsed(Str(toks[i].s), i + 1)
      [] TokAt(toks, i) = "1" -> Parsed(Number1, i + 1)
      [] TokAt(toks, i) = "[" ->
           IF TokAt(toks, i + 1) = "]" THEN Parsed(Arr(<<>>), i + 2)
           ELSE parseElements(toks, i + 1)
      [] TokAt(toks, i) = "{" ->
           IF TokAt(toks, i + 1) = "}" THEN Parsed(Obj(<<>>), i + 2)
           ELSE parseMembers(toks, i + 1)
      [] OTHER -> ParseFail

parseElements(toks, i) ==
    LET v == parseValue(toks, i)
    IN IF ~v.ok THEN ParseFail
       ELSE IF TokAt(toks, v.next) = "]" THEN Parsed(Arr(<<v.value>>), v.next + 1)
       ELSE IF TokAt(toks, v.next) = ","
            THEN LET rest == parseElements(toks, v.next + 1)
                 IN IF rest.ok THEN Parsed(Arr(<<v.value>> \o rest.value.items), rest.next)
                    ELSE ParseFail
       ELSE ParseFail

\* (a repeated key keeps both entries here; only the kind of an object is ever read)
parseMembers(toks, i) ==
    IF TokAt(toks, i) /= "str" \/ TokAt(toks, i + 1) /= ":" THEN ParseFail
    ELSE LET v == parseValue(toks, i + 2)
             entry == [k |-> toks[i].s, v |-> v.value]
         IN IF ~v.ok THEN ParseFail
            ELSE IF TokAt(toks, v.next) = "}" THEN Parsed(Obj(<<entry>>), v.next + 1)
            ELSE IF TokAt(toks, v.next) = ","
                 THEN LET rest == parseMembers(toks, v.next + 1)
                      IN IF rest.ok
                         THEN Parsed(Obj(<<entry>> \o rest.value.entries), rest.next)
                         ELSE ParseFail
            ELSE ParseFail

JSONparse(text) ==
    LET lexed == lexFrom(text, 1)
        v == parseValue(lexed.toks, 1)
    IN IF lexed.ok /\ v.ok /\ v.next = Len(lexed.toks) + 1 THEN v ELSE ParseFail

\* Array.isArray(x) && x.every((term) => "string" === typeof term)
isStringArray(x) == IsArray(x) /\ \A i \in 1..Len(x.items) : IsString(x.items[i])

parseTermsFromJsonFile_anyContent(file) ==
    IF ~file.exists THEN Threw("ENOENT")
    ELSE LET content == JSONparse(file.text)
         IN IF ~content.ok THEN Ok(<<>>)
            ELSE IF ~isStringArray(content.value) THEN Ok(<<>>)
            ELSE Ok(TextsOf(content.value.items))

parseTermsFromJsonFile(file) ==
    IF ~file.exists THEN Threw("ENOENT")
    ELSE LET content == JSONparse(file.text)
         IN IF ~content.ok THEN Threw("Failed to parse DNT terms file as JSON")
            ELSE IF ~isStringArray(content.value)
                 THEN Threw("DNT terms JSON file has unexpected content; expected string[]")
            ELSE Ok(TextsOf(content.value.items))

\* text.split(/[\r\n]+/)
RECURSIVE splitFrom(_, _, _)
splitFrom(text, i, line) ==
    IF i > Len(text) THEN <<line>>
    ELSE IF text[i] \in LineBreaks
         THEN IF i > 1 /\ text[i - 1] \in LineBreaks THEN splitFrom(text, i + 1, line)
              ELSE <<line>> \o splitFrom(text, i + 1, <<>>)
    ELSE splitFrom(text, i + 1, Append(line, text[i]))

\* String.prototype.trim
RECURSIVE trim(_)
trim(line) ==
    IF line = <<>> THEN line
    ELSE IF Head(line) \in Blanks THEN trim(Tail(line))
    ELSE IF line[Len(line)] \in Blanks THEN trim(SubSeq(line, 1, Len(line) - 1))
    ELSE line

\* terms.filter((t) => t.length > 0)
nonEmpty(terms) == SelectSeq(terms, LAMBDA t : Len(t) > 0)

parseTermsFromTxtFile(file) ==
    IF ~file.exists THEN Threw("ENOENT")
    ELSE LET lines == splitFrom(file.text, 1, <<>>)
         IN Ok(nonEmpty([i \in 1..Len(lines) |-> trim(lines[i])]))

\* [...new Set(terms)]: each value once, at the place of its first occurrence
uniqueFrom_keepAll(terms, i) == SubSeq(terms, i, Len(terms))

RECURSIVE uniqueFrom(_, _)
uniqueFrom(terms, i) ==
    IF i > Len(terms) THEN <<>>
    ELSE (IF \E j \in 1..(i - 1) : terms[j] = terms[i] THEN <<>> ELSE <<terms[i]>>)
         \o uniqueFrom(terms, i + 1)

\* constructor params: which keys the object has, and their values
Params(hasTerms, terms, hasPath, file, fileType) ==
    [hasTerms |-> hasTerms, terms |-> terms,
     hasPath |-> hasPath, termsFilePath |-> file, termsFileType |-> fileType]

constructor_keepEmpty(params) ==
    LET terms ==
            IF params.hasTerms
            THEN IF ~isStringArray(params.terms)
                 THEN Threw("DNT terms provided in an unexpected format; expected string[]")
                 ELSE Ok(TextsOf(params.terms.items))
            ELSE IF params.hasPath
            THEN CASE params.termsFileType = "json" ->
                        parseTermsFromJsonFile(params.termsFilePath)
                   [] params.termsFileType = "txt" ->
                        parseTermsFromTxtFile(params.termsFilePath)
                   [] OTHER -> Threw("not a valid DNT terms file type")
            ELSE Ok(<<>>)
    IN IF terms.threw THEN terms ELSE Ok(uniqueFrom(terms.terms, 1))

constructor(params) ==
    LET terms ==
            IF params.hasTerms
            THEN IF ~isStringArray(params.terms)
                 THEN Threw("DNT terms provided in an unexpected format; expected string[]")
                 ELSE Ok(TextsOf(params.terms.items))
            ELSE IF params.hasPath
            THEN CASE params.termsFileType = "json" ->
                        parseTermsFromJsonFile(params.termsFilePath)
                   [] params.termsFileType = "txt" ->
                        parseTermsFromTxtFile(params.termsFilePath)
                   [] OTHER -> Threw("not a valid DNT terms file type")
            ELSE Ok(<<>>)
    IN IF terms.threw THEN terms ELSE Ok(uniqueFrom(nonEmpty(terms.terms), 1))


(* ------------------------------- Project ------------------------------ *)

\* A file type is the options its constructor was given (without the project).
NoRuleset == <<>>
FileTypeDef(name, glob, ruleset) == [name |-> name, glob |-> glob, ruleset |-> ruleset]
xliffFileTypeDefinition == FileTypeDef("xliff", "**/*.xliff", <<"resource-check-all">>)
unknownFileTypeDefinition == FileTypeDef("unknown", "**/*", NoRuleset)

\* new FileType({name, project: this, ...def}): a property of def overrides name;
\* "" in def stands for a property def does not have
newFileType(name, def) ==
    [name |-> IF def.name /= "" THEN def.name ELSE name,
     glob |-> def.glob,
     ruleset |-> def.ruleset]

\* object[key] = value: in place when the object has the key, appended otherwise
RECURSIVE setProperty(_, _, _)
setProperty(entries, key, value) ==
    IF entries = <<>> THEN <<[k |-> key, v |-> value]>>
    ELSE IF Head(entries).k = key THEN <<[k |-> key, v |-> value]>> \o Tail(entries)
    ELSE <<Head(entries)>> \o setProperty(Tail(entries), key, value)

HasProperty(entries, key) == \E i \in 1..Len(entries) : entries[i].k = key
\* object[key] of an object that has the key
Property(entries, key) ==
    entries[CHOOSE i \in 1..Len(entries) : entries[i].k = key].v

\* the integer a key spells when it is a canonical array index, -1 for any other key
arrayIndex(key) ==
    CASE key = "0" -> 0
      [] key = "1" -> 1
      [] key = "2" -> 2
      [] OTHER -> -1

RECURSIVE ascending(_)
ascending(entries) ==
    IF entries = <<>> THEN <<>>
    ELSE LET i == CHOOSE i \in 1..Len(entries) :
                      \A j \in 1..Len(entries) :
                          arrayIndex(entries[i].k) <= arrayIndex(entries[j].k)
         IN <<entries[i]>>
            \o ascending(SubSeq(entries, 1, i - 1) \o SubSeq(entries, i + 1, Len(entries)))

\* for (let key in object): the keys that are array indices in ascending order, then
\* the other keys in the order they were added
forIn(entries) ==
    ascending(SelectSeq(entries, LAMBDA e : arrayIndex(e.k) >= 0))
    \o SelectSeq(entries, LAMBDA e : arrayIndex(e.k) < 0)

\* a value of config.paths: a file type's name, an inline definition, or something else
NameRef(name) == [kind |-> "string", name |-> name, def |-> FileTypeDef("", "", NoRuleset)]
InlineDef(def) == [kind |-> "object", name |-> "", def |-> def]
OtherRef == [kind |-> "number", name |-> "", def |-> FileTypeDef("", "", NoRuleset)]

\* path segments: a name with its extension, "." or ".."
Seg(stem, ext) == [stem |-> stem, ext |-> ext]
DotSeg == Seg(".", "")
DotDotSeg == Seg("..", "")
EmptySeg == Seg("", "")

\* path.normalize of a relative path: drops "." and empty segments, resolves ".."
\* against the segment before it, and gives "." for a path that comes out empty
RECURSIVE normalizeOnto(_, _)
normalizeOnto(done, rest) ==
    IF rest = <<>> THEN done
    ELSE IF Head(rest) \in {DotSeg, EmptySeg} THEN normalizeOnto(done, Tail(rest))
    ELSE IF Head(rest) = DotDotSeg /\ done /= <<>> /\ done[Len(done)] /= DotDotSeg
         THEN normalizeOnto(SubSeq(done, 1, Len(done) - 1), Tail(rest))
    ELSE normalizeOnto(Append(done, Head(rest)), Tail(rest))

normalize(pathName) ==
    LET segs == normalizeOnto(<<>>, pathName)
    IN IF segs = <<>> THEN <<DotSeg>> ELSE segs

\* the segments of the glob patterns in use
Pat(kind, stem, ext) == [kind |-> kind, stem |-> stem, ext |-> ext]
GlobSegments(glob) ==
    CASE glob = "**/*.xliff" -> <<Pat("globstar", "", ""), Pat("star", "", "xliff")>>
      [] glob = "**/*.js" -> <<Pat("globstar", "", ""), Pat("star", "", "js")>>
      [] glob = "**/*" -> <<Pat("globstar", "", ""), Pat("star", "", "")>>
      [] glob = "src/**" -> <<Pat("literal", "src", ""), Pat("globstar", "", "")>>
      [] OTHER -> <<Pat("literal", glob, "")>>

\* a "*" or "**" never matches a segment that starts with a dot
StarMatches(pat, seg) ==
    /\ seg \notin {DotSeg, DotDotSeg}
    /\ pat.ext /= "" => seg.ext = pat.ext

\* mm.isMatch: "**" stands for any number of segments, "*" and "*.ext" for one
RECURSIVE matchFrom(_, _, _, _)
matchFrom(pats, i, segs, j) ==
    IF i > Len(pats) THEN j > Len(segs)
    ELSE CASE pats[i].kind = "globstar" ->
                \E k \in j..(Len(segs) + 1) :
                    /\ \A m \in j..(k - 1) : StarMatches(pats[i], segs[m])
                    /\ matchFrom(pats, i + 1, segs, k)
           [] pats[i].kind = "star" ->
                /\ j <= Len(segs)
                /\ StarMatches(pats[i], segs[j])
                /\ matchFrom(pats, i + 1, segs, j + 1)
           [] OTHER ->
                /\ j <= Len(segs)
                /\ segs[j] = Seg(pats[i].stem, pats[i].ext)
                /\ matchFrom(pats, i + 1, segs, j + 1)

isMatch(pathName, glob) == matchFrom(GlobSegments(glob), 1, pathName, 1)

\* the constructor's arguments
ProjectArgs(root, options, hasConfig, filetypes, paths) ==
    [root |-> root, options |-> options, hasConfig |-> hasConfig,
     filetypes |-> filetypes, paths |-> paths]
Absent == [defined |-> FALSE, entries |-> <<>>]
Table(entries) == [defined |-> TRUE, entries |-> entries]

\* for (let ft in this.config.filetypes) this.filetypes[ft] = new FileType(...)
RECURSIVE addFileTypes(_, _)
addFileTypes(filetypes, defs) ==
    IF defs = <<>> THEN filetypes
    ELSE addFileTypes(setProperty(filetypes, Head(defs).k, newFileType(Head(defs).k, Head(defs).v)),
                      Tail(defs))

\* for (let glob in this.mappings) if (typeof(this.mappings[glob]) === 'object') ...
RECURSIVE addOnTheFly(_, _)
addOnTheFly(filetypes, mappings) ==
    IF mappings = <<>> THEN filetypes
    ELSE addOnTheFly(
             IF Head(mappings).v.kind = "object"
             THEN setProperty(filetypes, Head(mappings).k,
                              newFileType(Head(mappings).k, Head(mappings).v.def))
             ELSE filetypes,
             Tail(mappings))

builtinFileTypes ==
    <<[k |-> "xliff", v |-> xliffFileTypeDefinition],
      [k |-> "unknown", v |-> unknownFileTypeDefinition]>>

Project_constructor_configuredOnly(args) ==
    IF args.options = "undefined" \/ args.root = "" \/ ~args.hasConfig
       \/ args.options = "noPluginManager"
    THEN [threw |-> TRUE, filetypes |-> <<>>, mappings |-> Absent]
    ELSE LET configured ==
                 IF args.filetypes.defined
                 THEN addFileTypes(<<>>, forIn(args.filetypes.entries))
                 ELSE builtinFileTypes
         IN [threw |-> FALSE,
             filetypes |-> addOnTheFly(configured, forIn(args.paths.entries)),
             mappings |-> args.paths]

Project_constructor(args) ==
    IF args.options = "undefined" \/ args.root = "" \/ ~args.hasConfig
       \/ args.options = "noPluginManager"
    THEN [threw |-> TRUE, filetypes |-> <<>>, mappings |-> Absent]
    ELSE LET configured == addFileTypes(builtinFileTypes, forIn(args.filetypes.entries))
         IN [threw |-> FALSE,
             filetypes |-> addOnTheFly(configured, forIn(args.paths.entries)),
             mappings |-> args.paths]

\* this.filetypes[name] || this.filetypes.unknown
fileTypeOrUnknown(filetypes, name) ==
    IF HasProperty(filetypes, name) THEN Property(filetypes, name)
    ELSE Property(filetypes, "unknown")

\* the loop of getFileTypeForPath from mapping entry i on
RECURSIVE resolveFrom(_, _, _, _)
resolveFrom(filetypes, mappings, i, pathName) ==
    IF i > Len(mappings) THEN Property(filetypes, "unknown")
    ELSE IF isMatch(pathName, mappings[i].k)
         THEN fileTypeOrUnknown(filetypes,
                  IF mappings[i].v.kind = "string" THEN mappings[i].v.name ELSE mappings[i].k)
    ELSE resolveFrom(filetypes, mappings, i + 1, pathName)

getFileTypeForPath_fallThrough(filetypes, mappings, pathName) ==
    LET entries == forIn(mappings.entries)
        name(i) == IF entries[i].v.kind = "string" THEN entries[i].v.name ELSE entries[i].k
        hits == {i \in 1..Len(entries) :
                    isMatch(normalize(pathName), entries[i].k) /\ HasProperty(filetypes, name(i))}
    IN IF hits = {} THEN Property(filetypes, "unknown")
       ELSE Property(filetypes, name(CHOOSE i \in hits : \A k \in hits : i <= k))

getFileTypeForPath(filetypes, mappings, pathName) ==
    resolveFrom(filetypes, forIn(mappings.entries), 1, normalize(pathName))

\* if (v) ...: undefined and the empty string are falsy, every array and object is truthy
truthy(v) ==
    CASE v.kind = "undefined" -> FALSE
      [] v.kind = "string" -> v.s /= <<>>
      [] OTHER -> TRUE

\* a directory item, as far as init looks at it: typeof(item.init)
DirItem(typeofInit) == [init |-> typeofInit]

\* One promise made by promise.then(callback): what its callback calls (the plugin
\* manager's load, or the init of the item at an index of this.files) and the promise it
\* was made from, which is an earlier one of the chain or 0, Promise.resolve(true).
Then(kind, item, after) == [kind |-> kind, item |-> item, after |-> after]

\* promise = promise.then(callback)
then(made, kind, item) ==
    LET thens == Append(made.thens, Then(kind, item, made.promise))
    IN [thens |-> thens, promise |-> Len(thens)]

\* promise.then(callback), the new promise dropped
then_dropped(made, kind, item) ==
    [thens |-> Append(made.thens, Then(kind, item, made.promise)), promise |-> made.promise]

\* this.files.forEach(file => { if (typeof(file.init) === 'function') ... })
RECURSIVE forEachFile_unchained(_, _, _)
forEachFile_unchained(files, idx, made) ==
    IF idx > Len(files) THEN made
    ELSE forEachFile_unchained(files, idx + 1,
                               IF files[idx].init = "function"
                               THEN then_dropped(made, "init", idx)
                               ELSE made)

RECURSIVE forEachFile(_, _, _)
forEachFile(files, idx, made) ==
    IF idx > Len(files) THEN made
    ELSE forEachFile(files, idx + 1,
                     IF files[idx].init = "function" THEN then(made, "init", idx) ELSE made)

\* Project.init(): the promises it makes, and the one it returns
init(plugins, files) ==
    LET resolved == [thens |-> <<>>, promise |-> 0]
        loading == IF truthy(plugins) THEN then(resolved, "load", 0) ELSE resolved
    IN forEachFile(files, 1, loading)

\* the state of promise p of a chain, Promise.resolve(true) being fulfilled from the start
stateOf(status, p) == IF p = 0 THEN "fulfilled" ELSE status[p]

\* A promise made by then(callback) from a promise that rejects rejects with it, its
\* callback never called: then was given no rejection handler.
passRejections(thens, status) ==
    LET passed[k \in 0..Len(thens)] ==
            IF k = 0 THEN "fulfilled"
            ELSE IF status[k] = "pending" /\ passed[thens[k].after] = "rejected"
                 THEN "rejected"
                 ELSE status[k]
    IN [k \in 1..Len(thens) |-> passed[k]]

\* what the caller of init sees of the promise it was handed
promiseState(made, status) ==
    LET state == stateOf(status, made.promise)
    IN IF state \in {"fulfilled", "rejected"} THEN state ELSE "pending"

(* ----------------------- DeclarativeResourceRule ---------------------- *)

\* new RegExp(regexp, "gu") over the pattern characters a ( ) *: it throws on an
\* unbalanced parenthesis and on a "*" with nothing before it to repeat
RECURSIVE compilesFrom(_, _, _, _)
compilesFrom(regexp, i, depth, repeatable) ==
    IF i > Len(regexp) THEN depth = 0
    ELSE CASE regexp[i] = "(" -> compilesFrom(regexp, i + 1, depth + 1, FALSE)
           [] regexp[i] = ")" -> depth > 0 /\ compilesFrom(regexp, i + 1, depth - 1, TRUE)
           [] regexp[i] = "*" -> repeatable /\ compilesFrom(regexp, i + 1, depth, FALSE)
           [] OTHER -> compilesFrom(regexp, i + 1, depth, TRUE)

newRegExp(regexp, flags) ==
    [threw |-> ~compilesFrom(regexp, 1, 0, FALSE), source |-> regexp, flags |-> flags]

\* the constructor's options; "" stands for a property that is missing (or empty)
DeclOptions(version, defined, hasRegexps, regexps, name, description, note, sourceLocale, severity) ==
    [version |-> version, defined |-> defined, hasRegexps |-> hasRegexps,
     regexps |-> regexps, name |-> name, description |-> description, note |-> note,
     sourceLocale |-> sourceLocale, severity |-> severity]

\* the instance's own properties after construction
DeclProps(regexps, name, description, note, sourceLocale, severity) ==
    [regexps |-> regexps, name |-> name, description |-> description, note |-> note,
     sourceLocale |-> sourceLocale, severity |-> severity]
NoDeclProps == DeclProps(<<>>, "", "", "", "", "")

DeclThrew == [threw |-> TRUE, props |-> NoDeclProps, re |-> <<>>]

compileAll_lazily(regexps) ==
    LET compiled == [i \in 1..Len(regexps) |-> newRegExp(regexps[i], "gu")]
    IN [threw |-> FALSE, re |-> compiled]

\* options.regexps.map(regexp => new RegExp(regexp, "gu")), which throws when one does
compileAll(regexps) ==
    LET compiled == [i \in 1..Len(regexps) |-> newRegExp(regexps[i], "gu")]
    IN [threw |-> \E i \in 1..Len(compiled) : compiled[i].threw, re |-> compiled]

\* the constructor of the earlier version of the class
DeclarativeResourceRule_constructor1(options) ==
    IF ~options.defined \/ ~options.hasRegexps THEN DeclThrew
    ELSE LET compiled == compileAll(options.regexps)
         IN IF compiled.threw THEN DeclThrew
            ELSE [threw |-> FALSE,
                  props |-> DeclProps(options.regexps, "", "", "", "", ""),
                  re |-> compiled.re]

\* the constructor of the later version of the class
DeclarativeResourceRule_constructor2(options) ==
    IF ~options.defined \/ options.name = "" \/ options.description = ""
       \/ options.note = "" \/ ~options.hasRegexps
    THEN DeclThrew
    ELSE LET compiled == compileAll(options.regexps)
         IN IF compiled.threw THEN DeclThrew
            ELSE [threw |-> FALSE,
                  props |-> DeclProps(<<>>, options.name, options.description, options.note,
                                IF options.sourceLocale = "" THEN "en-US"
                                ELSE options.sourceLocale,
                                IF options.severity = "" THEN "error" ELSE options.severity),
                  re |-> compiled.re]

DeclarativeResourceRule_constructor(options) ==
    IF options.version = 1 THEN DeclarativeResourceRule_constructor1(options)
    ELSE DeclarativeResourceRule_constructor2(options)

\* what one checkString call returns: undefined, one Result, or an array whose items
\* are Results or falsy
Falsy == [falsy |-> TRUE, re |-> 0, n |-> 0]
Finding(i, n) == [falsy |-> FALSE, re |-> i, n |-> n]
ReturnsUndefined == [kind |-> "undefined", items |-> <<>>]
ReturnsResult(r) == [kind |-> "result", items |-> <<r>>]
ReturnsArray(items) == [kind |-> "array", items |-> items]

\* results.concat(x): the items of an array x, or x itself
concat(results, x) ==
    IF x.kind = "array" THEN results \o x.items
    ELSE IF x.kind = "result" THEN results \o x.items
    ELSE Append(results, Falsy)

\* this.re.forEach(re => { results = results.concat(this.checkString(...)) }), where
\* checks[i] is what checkString returns for the i-th pattern
RECURSIVE forEachRe(_, _, _, _)
forEachRe(re, checks, i, acc) ==
    IF i > Len(re) THEN acc
    ELSE forEachRe(re, checks, i + 1,
                   [results |-> concat(acc.results, checks[i]),
                    invoked |-> Append(acc.invoked, re[i])])

matchString_emptyList(re, checks) ==
    LET done == forEachRe(re, checks, 1, [results |-> <<>>, invoked |-> <<>>])
        results == SelectSeq(done.results, LAMBDA r : ~r.falsy)
    IN [returned |-> Returned(results), invoked |-> done.invoked]

matchString(re, checks) ==
    LET done == forEachRe(re, checks, 1, [results |-> <<>>, invoked |-> <<>>])
        results == SelectSeq(done.results, LAMBDA r : ~r.falsy)
    IN [returned |-> IF Len(results) > 0 THEN Returned(results) ELSE ReturnedUndefined,
        invoked |-> done.invoked]

\* One matchString call in progress: where it stands, what checkString returns to it for
\* each pattern, the pattern its loop has reached, its local results, what it returned.
DeclFrame(pc, checks, i, results, returned) ==
    [pc |-> pc, checks |-> checks, i |-> i, results |-> results, returned |-> returned]

\* one iteration of this.re.forEach, or the filter and return after the last one
iterateRe(re, frame) ==
    IF frame.i > Len(re)
    THEN LET results == SelectSeq(frame.results, LAMBDA r : ~r.falsy)
         IN [frame EXCEPT !.pc = "returned",
                          !.returned = IF Len(results) > 0 THEN Returned(results)
                                       ELSE ReturnedUndefined]
    ELSE [frame EXCEPT !.i = @ + 1, !.results = concat(@, frame.checks[frame.i])]

(* -------------------------------- state ------------------------------- *)

VARIABLES
    rule,        \* "none" before construction, then "ready", or "failed" (constructor threw)
    params,      \* the constructor's argument
    _dntTerms,   \* this._dntTerms
    pending,     \* the resource, file and locale the caller holds for the next match call
    matched,     \* whether match has been called
    call,        \* the argument of the latest match call
    result,      \* what the latest match call returned
    history      \* the first match call and what it returned, and what was called since

dntVars == <<rule, params, _dntTerms, pending, matched, call, result, history>>

VARIABLES
    project,      \* "none" before construction, then "ready", or "failed" (constructor threw)
    args,         \* the constructor's arguments
    filetypes,    \* this.filetypes
    mappings,     \* this.mappings
    asked,        \* the path the caller will ask, or has asked, the file type of
    answered,     \* whether getFileTypeForPath has been called
    fileType      \* what the latest getFileTypeForPath call returned

VARIABLES
    plugins,      \* this.config.plugins
    files,        \* this.files
    initCalled,   \* whether init has been called
    chain,        \* the promises the init call made, and the one it returned
    status,       \* of each of these promises: "pending" (callback not called yet),
                  \* "running" (callback has returned a promise that is not settled),
                  \* "fulfilled" or "rejected"
    initLog       \* this.files as it was when init was called, and what happened since:
                  \* the steps started, completed and failed, in the order they did

initVars == <<plugins, files, initCalled, chain, status, initLog>>
projectVars == <<project, args, filetypes, mappings, asked, answered, fileType, initVars>>

VARIABLES
    decl,         \* "none" before construction, then "ready", or "failed" (constructor threw)
    options,      \* the constructor's argument
    declProps,    \* the instance's properties other than this.re
    re,           \* this.re
    checks,       \* what the concrete rule's checkString returns for each pattern on the
                  \* source/target pair the caller holds
    declMatched,  \* whether matchString has been called
    invoked,      \* the patterns the latest matchString call passed to checkString
    declResult    \* what the latest matchString call returned

declVars == <<decl, options, declProps, re, checks, declMatched, invoked, declResult>>

VARIABLES
    frames,       \* the match calls in progress on the one rule, by caller
    declFrames    \* the matchString calls in progress on the one declarative rule, by caller

concVars == <<frames, declFrames>>

vars == <<dntVars, projectVars, declVars, concVars>>

(* ------------------------------- actions ------------------------------ *)

NoParams == Params(FALSE, Undefined, FALSE, NoFile, "undefined")
Resource(type, key, source, target) ==
    [type |-> type, key |-> key, source |-> source, target |-> target]
Call(resource, file, locale) == [resource |-> resource, file |-> file, locale |-> locale]
NoCall == Call(Resource("none", "", Undefined, Undefined), "", "")

\* what is remembered of the calls made: the first one with its result, and whether the
\* calls after it were all of that same resource ("same"), or included another resource
\* ("other"), or included another resource and then the first one again ("again")
History(seen, first, returned, since) ==
    [seen |-> seen, call |-> first, result |-> returned, since |-> since]
NoHistory == History(FALSE, NoCall, ReturnedUndefined, "same")
Remember(past, called, returned) ==
    IF ~past.seen THEN History(TRUE, called, returned, "same")
    ELSE IF called /= past.call THEN [past EXCEPT !.since = "other"]
    ELSE IF past.since = "other" THEN [past EXCEPT !.since = "again"]
    ELSE past

\* no rule yet; the caller holds one of the resources of C
DntInit(C) ==
    /\ rule = "none"
    /\ params = NoParams
    /\ _dntTerms = <<>>
    /\ pending \in C
    /\ matched = FALSE
    /\ call = NoCall
    /\ result = ReturnedUndefined
    /\ history = NoHistory

\* new ResourceDNTTerms(p), p drawn from P
Construct(P) ==
    /\ rule = "none"
    /\ \E p \in P :
          LET made == constructor(p)
          IN /\ params' = p
             /\ rule' = IF made.threw THEN "failed" ELSE "ready"
             /\ _dntTerms' = made.terms
    /\ UNCHANGED <<pending, matched, call, result, history>>
    /\ UNCHANGED <<projectVars, declVars, concVars>>

\* rule.match(pending); only a constructed rule can be called
Match_reportingOnce ==
    /\ rule = "ready"
    /\ call' = pending
    /\ result' = match(_dntTerms, pending)
    /\ matched' = TRUE
    /\ history' = Remember(history, pending, result')
    /\ _dntTerms' = SelectSeq(_dntTerms, LAMBDA x :
                        \A i \in 1..Len(result'.list) : result'.list[i].highlight /= Highlight(x))
    /\ UNCHANGED <<rule, params, pending>>
    /\ UNCHANGED <<projectVars, declVars, concVars>>

Match ==
    /\ rule = "ready"
    /\ call' = pending
    /\ result' = match(_dntTerms, pending)
    /\ matched' = TRUE
    /\ history' = Remember(history, pending, result')
    /\ UNCHANGED <<rule, params, _dntTerms, pending>>
    /\ UNCHANGED <<projectVars, declVars, concVars>>

\* the caller has consumed the latest result and moves on to another resource of C,
\* keeping no record of the calls made so far
NextResource(C) ==
    /\ matched
    /\ pending' \in C
    /\ matched' = FALSE
    /\ call' = NoCall
    /\ result' = ReturnedUndefined
    /\ history' = NoHistory
    /\ UNCHANGED <<rule, params, _dntTerms>>
    /\ UNCHANGED <<projectVars, declVars, concVars>>

\* the caller moves on to a resource of C, possibly one it has had matched before
NextCall(C) ==
    /\ matched
    /\ pending' \in C
    /\ matched' = FALSE
    /\ call' = NoCall
    /\ result' = ReturnedUndefined
    /\ UNCHANGED <<rule, params, _dntTerms, history>>
    /\ UNCHANGED <<projectVars, declVars, concVars>>

NoArgs == ProjectArgs("", "undefined", FALSE, Absent, Absent)
NoFileType == FileTypeDef("", "", NoRuleset)

\* no project yet; the caller holds one of the paths of Q
ProjectInit(Q) ==
    /\ project = "none"
    /\ args = NoArgs
    /\ filetypes = <<>>
    /\ mappings = Absent
    /\ asked \in Q
    /\ answered = FALSE
    /\ fileType = NoFileType

\* new Project(root, options, config), the arguments drawn from A
NewProject(A) ==
    /\ project = "none"
    /\ \E a \in A :
          LET made == Project_constructor(a)
          IN /\ args' = a
             /\ project' = IF made.threw THEN "failed" ELSE "ready"
             /\ filetypes' = made.filetypes
             /\ mappings' = made.mappings
    /\ files' = <<>>
    /\ UNCHANGED <<asked, answered, fileType, plugins, initCalled, chain, status, initLog>>
    /\ UNCHANGED <<dntVars, declVars, concVars>>

\* project.getFileTypeForPath(asked)
GetFileTypeForPath ==
    /\ project = "ready"
    /\ fileType' = getFileTypeForPath(filetypes, mappings, asked)
    /\ answered' = TRUE
    /\ UNCHANGED <<project, args, filetypes, mappings, asked, initVars>>
    /\ UNCHANGED <<dntVars, declVars, concVars>>

NoLog == [files |-> <<>>, events |-> <<>>]
Event(what, item) == [what |-> what, item |-> item]

\* no item added, init not called; the configuration's plugins property is one of G
StartupInit(G) ==
    /\ plugins \in G
    /\ files = <<>>
    /\ initCalled = FALSE
    /\ chain = [thens |-> <<>>, promise |-> 0]
    /\ status = <<>>
    /\ initLog = NoLog

\* project.add(item), the item drawn from I
Add(I) ==
    /\ project = "ready"
    /\ Len(files) < MaxFiles
    /\ \E item \in I : files' = Append(files, item)
    /\ UNCHANGED <<project, args, filetypes, mappings, asked, answered, fileType>>
    /\ UNCHANGED <<plugins, initCalled, chain, status, initLog>>
    /\ UNCHANGED <<dntVars, declVars, concVars>>

\* project.init(): the chain is put together and returned, no callback has run yet
CallInit ==
    /\ project = "ready"
    /\ ~initCalled
    /\ initCalled' = TRUE
    /\ chain' = init(plugins, files)
    /\ status' = [k \in 1..Len(chain'.thens) |-> "pending"]
    /\ initLog' = [files |-> files, events |-> <<>>]
    /\ UNCHANGED <<project, args, filetypes, mappings, asked, answered, fileType>>
    /\ UNCHANGED <<plugins, files>>
    /\ UNCHANGED <<dntVars, declVars, concVars>>

\* The callback of a promise whose parent is fulfilled is called. It calls load or an
\* item's init, which behaves in one of the ways of O: it returns a value that is no
\* promise, returns a promise, or throws.
RunCallback(O) ==
    /\ initCalled
    /\ \E k \in 1..Len(chain.thens), o \in O :
          /\ status[k] = "pending"
          /\ stateOf(status, chain.thens[k].after) = "fulfilled"
          /\ LET item == chain.thens[k].item
                 started == Append(initLog.events, Event("start", item))
             IN CASE o = "returns" ->
                       /\ status' = [status EXCEPT ![k] = "fulfilled"]
                       /\ initLog' = [initLog EXCEPT !.events =
                                          Append(started, Event("done", item))]
                  [] o = "promises" ->
                       /\ status' = [status EXCEPT ![k] = "running"]
                       /\ initLog' = [initLog EXCEPT !.events = started]
                  [] OTHER ->
                       /\ status' = passRejections(chain.thens,
                                                   [status EXCEPT ![k] = "rejected"])
                       /\ initLog' = [initLog EXCEPT !.events =
                                          Append(started, Event("fail", item))]
    /\ UNCHANGED <<project, args, filetypes, mappings, asked, answered, fileType>>
    /\ UNCHANGED <<plugins, files, initCalled, chain>>
    /\ UNCHANGED <<dntVars, declVars, concVars>>

\* the promise a callback returned is fulfilled, or rejects
Settle ==
    /\ initCalled
    /\ \E k \in 1..Len(chain.thens), fulfilled \in BOOLEAN :
          /\ status[k] = "running"
          /\ status' = IF fulfilled THEN [status EXCEPT ![k] = "fulfilled"]
                        ELSE passRejections(chain.thens, [status EXCEPT ![k] = "rejected"])
          /\ initLog' = [initLog EXCEPT !.events =
                             Append(@, Event(IF fulfilled THEN "done" ELSE "fail",
                                             chain.thens[k].item))]
    /\ UNCHANGED <<project, args, filetypes, mappings, asked, answered, fileType>>
    /\ UNCHANGED <<plugins, files, initCalled, chain>>
    /\ UNCHANGED <<dntVars, declVars, concVars>>

NoOptions == DeclOptions(1, FALSE, FALSE, <<>>, "", "", "", "", "")

\* no rule yet; checkString behaves on the pair at hand as one of the functions of K
DeclInit(K) ==
    /\ decl = "none"
    /\ options = NoOptions
    /\ declProps = NoDeclProps
    /\ re = <<>>
    /\ checks \in K
    /\ declMatched = FALSE
    /\ invoked = <<>>
    /\ declResult = ReturnedUndefined

\* new DeclarativeResourceRule(o), o drawn from O
ConstructDecl(O) ==
    /\ decl = "none"
    /\ \E o \in O :
          LET made == DeclarativeResourceRule_constructor(o)
          IN /\ options' = o
             /\ decl' = IF made.threw THEN "failed" ELSE "ready"
             /\ declProps' = made.props
             /\ re' = made.re
    /\ UNCHANGED <<checks, declMatched, invoked, declResult>>
    /\ UNCHANGED <<dntVars, projectVars, concVars>>

\* rule.matchString({source, target, file, resource})
MatchString ==
    /\ decl = "ready"
    /\ LET done == matchString(re, checks)
       IN /\ declResult' = done.returned
          /\ invoked' = done.invoked
    /\ declMatched' = TRUE
    /\ UNCHANGED <<decl, options, declProps, re, checks>>
    /\ UNCHANGED <<dntVars, projectVars, concVars>>

Callers == 1..MaxCallers
NoFrame == Frame("none", NoCall, 0, 0, <<>>, ReturnedUndefined)
NoDeclFrame == DeclFrame("none", <<>>, 0, <<>>, ReturnedUndefined)

\* no call is in progress
ConcIdle ==
    /\ frames = [c \in Callers |-> NoFrame]
    /\ declFrames = [c \in Callers |-> NoDeclFrame]

\* every caller has called match with a resource of C, or every caller has called
\* matchString on a pair for which checkString behaves as one of the functions of K;
\* none of the calls has run a step yet
ConcInit(C, K) ==
    \/ /\ frames \in [Callers -> {Frame("called", c, 0, 0, <<>>, ReturnedUndefined) : c \in C}]
       /\ declFrames = [c \in Callers |-> NoDeclFrame]
    \/ /\ frames = [c \in Callers |-> NoFrame]
       /\ declFrames \in [Callers -> {DeclFrame("called", k, 1, <<>>, ReturnedUndefined) : k \in K}]

\* caller c's match call runs up to its loop
Enter(c) ==
    /\ rule = "ready"
    /\ frames[c].pc = "called"
    /\ frames' = [frames EXCEPT ![c] = enter(@)]
    /\ UNCHANGED <<dntVars, projectVars, declVars, declFrames>>

Iterate_sharedResults(c) ==
    /\ frames[c].pc = "looping"
    /\ LET shared == CHOOSE k \in Callers : \A j \in Callers : k <= j
           done == iterate(_dntTerms, frames[c], frames[shared].partialResults)
       IN frames' = [[frames EXCEPT ![c] = done.frame]
                        EXCEPT ![shared].partialResults = done.partialResults]
    /\ UNCHANGED <<dntVars, projectVars, declVars, declFrames>>

\* caller c's match call runs one iteration of its loop, or returns
Iterate(c) ==
    /\ frames[c].pc = "looping"
    /\ LET done == iterate(_dntTerms, frames[c], frames[c].partialResults)
       IN frames' = [frames EXCEPT ![c] = [done.frame EXCEPT !.partialResults =
                                                                done.partialResults]]
    /\ UNCHANGED <<dntVars, projectVars, declVars, declFrames>>

\* caller c's matchString call runs one iteration of its loop, or returns
IterateRe(c) ==
    /\ decl = "ready"
    /\ declFrames[c].pc = "called"
    /\ declFrames' = [declFrames EXCEPT ![c] = iterateRe(re, @)]
    /\ UNCHANGED <<dntVars, projectVars, declVars, frames>>

\* some caller's call takes its next step
Step == \E c \in Callers : Enter(c) \/ Iterate(c)
StepRe == \E c \in Callers : IterateRe(c)

(* ------------------------------- inputs ------------------------------- *)

Chars == {"a", "b"}
Texts == {t : t \in SeqsUpTo(Chars, MaxTextLen)}

\* an explicit terms value: an array of strings and non-strings, or no array at all
TermItems == {Str(t) : t \in Texts} \cup {Undefined}
ExplicitTerms == {Arr(items) : items \in SeqsUpTo(TermItems, MaxTerms)} \cup {Undefined, Str(<<"a">>)}
ExplicitParams ==
    {p : p \in {Params(TRUE, t, FALSE, NoFile, "undefined") : t \in ExplicitTerms}}

\* string resources: source and target are text, absent, or a number
StringValues == {Str(t) : t \in Texts} \cup {Undefined, Number1}
StringCalls ==
    {Call(Resource("string", "k1", s, t), "f.xliff", "de-DE") : s, t \in StringValues}


\* the texts over one letter, and "ab": a smaller alphabet for the container shapes
SmallTexts == {t \in Texts : \A i \in 1..(Len(t) - 1) : t[i] = "a" /\ t[i + 1] = "b"}
SmallParams ==
    {p : p \in {Params(TRUE, Arr(items), FALSE, NoFile, "undefined") :
                   items \in SeqsUpTo({Str(t) : t \in SmallTexts}, MaxTerms)}}

\* array resources: arrays of text and non-text items, or no array
ArrayItems == {Str(t) : t \in SmallTexts} \cup {Undefined}
ArrayValues == {Arr(items) : items \in SeqsUpTo(ArrayItems, MaxItems)} \cup {Undefined}
ArrayCalls ==
    {Call(Resource("array", "k1", s, t), "f.xliff", "de-DE") : s, t \in ArrayValues}

\* an object with the given keys, in that order, and the given values
Entries(keys, values) == [i \in 1..Len(keys) |-> [k |-> keys[i], v |-> values[i]]]
Objects(K, V) ==
    {Obj(Entries(keys, values)) :
        <<keys, values>> \in {kv \in SeqsUpTo(K, MaxCats) \X SeqsUpTo(V, MaxCats) :
                                 Len(kv[1]) = Len(kv[2]) /\ Distinct(kv[1])}}

\* plural resources: mappings from categories to text, or no mapping
PluralValues == Objects({"one", "other"}, {Str(t) : t \in SmallTexts}) \cup {Undefined}
PluralCalls ==
    {Call(Resource("plural", "k1", s, t), "f.xliff", "de-DE") : s, t \in PluralValues}

\* resources of any declared shape with content of any kind
OneTermParams ==
    {p : p \in {Params(TRUE, Arr(items), FALSE, NoFile, "undefined") :
                   items \in SeqsUpTo({Str(<<"a">>)}, MaxTerms)}}
AnyItems == {Str(<<"a">>), Undefined}
AnyValues ==
    {Undefined, Number1, Str(<<>>), Str(<<"a">>)}
    \cup {Arr(items) : items \in SeqsUpTo(AnyItems, MaxItems)}
    \cup Objects({"one", "other", "bogus"}, AnyItems)
Shapes == {"string", "array", "plural", "other"}
AnyCalls ==
    {Call(Resource(shape, "k1", s, t), "f.xliff", "de-DE") :
        shape \in Shapes, s \in AnyValues, t \in AnyValues}

\* term files: every short text over the characters of a JSON array of strings and over
\* those of a list of lines, and some longer ones
JsonChars == {"[", "]", "\"", ",", "a"}
TxtChars == {"a", " ", "\n"}
FooJson == <<"{", "\"", "f", "o", "o", "\"", ":", " ", "1", "}">>
LongerTexts ==
    {FooJson,
     <<"[", "1", "]">>,
     <<"1">>,
     <<"{", "}">>,
     <<"[", "\"", "a", "\"", ",", "1", "]">>,
     <<"[", "\"", "a", "\"", ",", "\"", "b", "\"", "]">>,
     <<"[", "\"", "a", "\"", ",", " ", "\"", "a", "\"", "]">>,
     <<"[", "\"", "a", "\n", "\"", "]">>,
     <<"[", "[", "\"", "a", "\"", "]", "]">>,
     <<"a", " ", "b", "\r", "\n", "\r", "\n", " ", "a", " ", "b", " ">>}
TermFiles ==
    {File(t) : t \in SeqsUpTo(JsonChars, MaxFileLen) \cup SeqsUpTo(TxtChars, MaxFileLen)
                      \cup LongerTexts}
    \cup {NoFile}
SomeFiles == {File(<<"[", "\"", "a", "\"", "]">>), File(FooJson), NoFile}
FileParams ==
    {Params(FALSE, Undefined, TRUE, f, type) : f \in TermFiles, type \in {"json", "txt"}}
    \cup {Params(FALSE, Undefined, TRUE, f, type) : f \in SomeFiles, type \in {"yaml", "undefined"}}
\* both an explicit list and a file reference; a file type and nothing else; nothing
OtherParams ==
    {Params(TRUE, t, TRUE, f, type) :
        t \in {Arr(<<Str(<<"a">>)>>), Undefined}, f \in SomeFiles, type \in {"json", "yaml"}}
    \cup {Params(FALSE, Undefined, FALSE, NoFile, "json"), NoParams}
AllParams == {p : p \in ExplicitParams \cup FileParams \cup OtherParams}
SomeCalls ==
    {Call(Resource("string", "k1", Str(s), Str(<<>>)), "f.xliff", "de-DE") :
        s \in {<<"a">>, <<"b", "a">>}}

\* resources of the three shapes made of one source text and one target text
Shaped(shape, text) ==
    CASE shape = "string" -> Str(text)
      [] shape = "array" -> Arr(<<Str(text)>>)
      [] OTHER -> Obj(<<[k |-> "other", v |-> Str(text)]>>)
RematchCalls ==
    {c : c \in {Call(Resource(shape, "k1", Shaped(shape, s), Shaped(shape, t)), "f.xliff", "de-DE") :
                   shape \in {"string", "array", "plural"}, s \in SmallTexts, t \in SmallTexts}}

\* well-typed resources of the three shapes over the small texts, under two keys, files
\* and locales
SmallStrings == {Str(t) : t \in SmallTexts}
WellTypedPairs ==
    {<<"string", s, t>> : s \in SmallStrings, t \in SmallStrings}
    \cup {<<"array", Arr(s), Arr(t)>> :
             s \in SeqsUpTo(SmallStrings, MaxItems), t \in SeqsUpTo(SmallStrings, MaxItems)}
    \cup {<<"plural", s, t>> :
             s \in Objects({"one", "other"}, SmallStrings),
             t \in Objects({"one", "other"}, SmallStrings)}
WellTypedCalls ==
    {c : c \in {Call(Resource(r[1], w[1], r[2], r[3]), w[2], w[3]) :
                   r \in WellTypedPairs,
                   w \in {<<"k1", "f.xliff", "de-DE">>, <<"k2", "g.xliff", "fr-FR">>}}}

\* what config.plugins may be, what typeof(item.init) may be, how load and init may end
PluginConfigs == {Undefined, Arr(<<>>), Arr(<<Str(<<"p">>)>>)}
DirItems == {i : i \in {DirItem(t) : t \in {"function", "undefined", "object"}}}
Outcomes == {o : o \in {"returns", "promises", "throws"}}
StartupArgs ==
    {a : a \in {ProjectArgs("proj", "ok", TRUE, Absent, Absent),
                ProjectArgs("proj", "noPluginManager", TRUE, Absent, Absent)}}

\* a few resources of every shape, well-typed and not, for calls in progress together
InterleavedCalls ==
    {Call(Resource("string", "k1", Str(<<"a", "b">>), Str(<<>>)), "f.xliff", "de-DE"),
     Call(Resource("string", "k2", Str(<<"a">>), Str(<<"a">>)), "g.xliff", "fr-FR"),
     Call(Resource("string", "k3", Str(<<"b">>), Undefined), "g.xliff", "fr-FR"),
     Call(Resource("array", "k4", Arr(<<Str(<<"a">>), Str(<<"b">>)>>), Arr(<<Str(<<>>)>>)),
          "f.xliff", "de-DE"),
     Call(Resource("array", "k5", Arr(<<Str(<<"a", "b">>)>>), Arr(<<Str(<<"b">>), Str(<<>>)>>)),
          "g.xliff", "fr-FR"),
     Call(Resource("plural", "k6",
                   Obj(<<[k |-> "one", v |-> Str(<<"a">>)], [k |-> "other", v |-> Str(<<"a", "b">>)]>>),
                   Obj(<<[k |-> "one", v |-> Str(<<>>)], [k |-> "other", v |-> Str(<<"b">>)]>>)),
          "f.xliff", "de-DE"),
     Call(Resource("plural", "k7", Obj(<<[k |-> "bogus", v |-> Str(<<"a">>)]>>), Obj(<<>>)),
          "f.xliff", "de-DE"),
     Call(Resource("other", "k8", Str(<<"a">>), Str(<<>>)), "f.xliff", "de-DE")}
InterleavedParams ==
    {p : p \in {Params(TRUE, Arr(items), FALSE, NoFile, "undefined") :
                   items \in SeqsUpTo({Str(<<"a">>), Str(<<"b">>)}, MaxTerms)}}
InterleavedOptions ==
    {o : o \in {DeclOptions(2, TRUE, TRUE, r, "rule", "about", "note", "", "") :
                   r \in {<<>>, <<<<"a">>>>, <<<<"a">>, <<"a", "*">>>>}}}
InterleavedChecks ==
    {[i \in 1..MaxPatterns |-> ReturnsUndefined],
     [i \in 1..MaxPatterns |-> ReturnsResult(Finding(i, 1))],
     [i \in 1..MaxPatterns |-> ReturnsArray(<<Falsy, Finding(i, 2)>>)],
     [i \in 1..MaxPatterns |-> IF i = 1 THEN ReturnsArray(<<Finding(i, 1), Finding(i, 2)>>)
                               ELSE ReturnsUndefined]}

\* term sources with no term, with only empty terms, and with the term "a"
FewJsonFiles ==
    {File(<<"[", "]">>),
     File(<<"[", "\"", "\"", "]">>),
     File(<<"[", "\"", "\"", ",", "\"", "\"", "]">>),
     File(<<"[", "\"", "a", "\"", "]">>),
     File(<<"[", "\"", "\"", ",", "\"", "a", "\"", "]">>)}
FewTxtFiles ==
    {File(<<>>), File(<<" ">>), File(<<"\n">>), File(<<" ", "\n", "\r", " ">>),
     File(<<"a", "\n">>), File(<<"\n", " ", "a">>)}
FewParams ==
    {p : p \in {Params(TRUE, Arr(items), FALSE, NoFile, "undefined") :
                   items \in SeqsUpTo({Str(<<>>), Str(<<"a">>)}, MaxTerms)}
              \cup {Params(FALSE, Undefined, TRUE, f, "json") : f \in FewJsonFiles}
              \cup {Params(FALSE, Undefined, TRUE, f, "txt") : f \in FewTxtFiles}
              \cup {NoParams, Params(FALSE, Undefined, FALSE, NoFile, "json")}}

\* project configurations: file types named like the built-in ones or otherwise, and
\* mappings from globs to registered names, dangling names and inline definitions
UserDef == FileTypeDef("", "", <<"custom">>)
FileTypeNames == {"xliff", "unknown", "A", "B"}
Globs == {"**/*.xliff", "**/*", "src/**", "**/*.js", "xliff", "unknown", "1"}
MappingValues == {NameRef(n) : n \in FileTypeNames} \cup {InlineDef(UserDef), OtherRef}
ObjectsOf(K, V, n) ==
    {Table(Entries(kv[1], kv[2])) :
        kv \in {x \in SeqsUpTo(K, n) \X SeqsUpTo(V, n) : Len(x[1]) = Len(x[2]) /\ Distinct(x[1])}}
FileTypeTables == ObjectsOf(FileTypeNames, {UserDef}, MaxFileTypes) \cup {Absent}
PathTables == ObjectsOf(Globs, MappingValues, MaxMappings) \cup {Absent}
ConfiguredArgs ==
    {ProjectArgs("proj", "ok", TRUE, f, m) : f \in FileTypeTables, m \in PathTables}
RejectedArgs ==
    {ProjectArgs("", "ok", TRUE, Absent, Absent),
     ProjectArgs("proj", "undefined", TRUE, Absent, Absent),
     ProjectArgs("proj", "noPluginManager", TRUE, Absent, Absent),
     ProjectArgs("proj", "ok", FALSE, Absent, Absent)}
AllArgs == {a : a \in ConfiguredArgs \cup RejectedArgs}
AskedPaths ==
    {<<Seg("a", ""), Seg("b", "xliff")>>,
     <<Seg("a", ""), Seg("b", "txt")>>,
     <<Seg("src", ""), Seg("x", "js")>>,
     <<DotSeg, Seg("src", ""), EmptySeg, Seg("x", "js")>>,
     <<Seg("a", ""), DotDotSeg, Seg("x", "js")>>,
     <<Seg("xliff", "")>>,
     <<Seg("1", "")>>}

\* pattern lists and constructor options of the declarative rule
PatternChars == {"a", "(", ")", "*"}
Patterns == SeqsUpTo(PatternChars, MaxPatternLen)
PatternLists == SeqsUpTo(Patterns, MaxPatterns)
PatternOptions ==
    {DeclOptions(1, TRUE, TRUE, r, "", "", "", "", "") : r \in PatternLists}
    \cup {DeclOptions(2, TRUE, TRUE, r, n, d, t, "", "") :
             r \in PatternLists, n \in {"", "rule"}, d \in {"", "about"}, t \in {"", "note"}}
    \cup {DeclOptions(2, TRUE, TRUE, <<<<"a">>>>, "rule", "about", "note", l, v) :
             l \in {"", "ko-KR"}, v \in {"", "warning"}}
    \cup {DeclOptions(v, d, FALSE, <<>>, "rule", "about", "note", "", "") :
             v \in {1, 2}, d \in BOOLEAN}
AllOptions == {o : o \in PatternOptions}
SomePatterns == {<<"a">>, <<"a", "*">>, <<"(", ")">>}
SomeOptions ==
    {o : o \in {DeclOptions(v, TRUE, TRUE, r, n, n, n, "", "") :
                   <<v, n>> \in {<<1, "">>, <<2, "rule">>},
                   r \in SeqsUpTo(SomePatterns, MaxPatterns)}}

\* what checkString may return for the i-th pattern
ReturnItems(i) == {Finding(i, 1), Finding(i, 2), Falsy}
Returns(i) ==
    {ReturnsUndefined, ReturnsResult(Finding(i, 1))}
    \cup {ReturnsArray(items) : items \in SeqsUpTo(ReturnItems(i), MaxReturned)}
AllChecks == {k \in [1..MaxPatterns -> UNION {Returns(i) : i \in 1..MaxPatterns}] :
                 \A i \in 1..MaxPatterns : k[i] \in Returns(i)}
SomeChecks ==
    {[i \in 1..MaxPatterns |-> ReturnsUndefined],
     [i \in 1..MaxPatterns |-> ReturnsResult(Finding(i, 1))]}

(* --------------------------- specifications --------------------------- *)

\* a component that takes no part in a specification stays as it starts
DntIdle == DntInit({NoCall})
ProjectIdle == ProjectInit({<<>>}) /\ StartupInit({Undefined})
DeclIdle == DeclInit({<<>>})

\* the rule built from an explicit term list, matched against string resources
InitString == DntInit(StringCalls) /\ ProjectIdle /\ DeclIdle /\ ConcIdle
NextString == Construct(ExplicitParams) \/ Match \/ NextResource(StringCalls)
SpecString == InitString /\ [][NextString]_vars

\* the rule matched against one array resource
InitArray == DntInit(ArrayCalls) /\ ProjectIdle /\ DeclIdle /\ ConcIdle
NextArray == Construct(SmallParams) \/ Match
SpecArray == InitArray /\ [][NextArray]_vars

\* the rule matched against one plural resource
InitPlural == DntInit(PluralCalls) /\ ProjectIdle /\ DeclIdle /\ ConcIdle
NextPlural == Construct(SmallParams) \/ Match
SpecPlural == InitPlural /\ [][NextPlural]_vars

\* the rule matched against one resource of any shape and content
InitShapes == DntInit(AnyCalls) /\ ProjectIdle /\ DeclIdle /\ ConcIdle
NextShapes == Construct(OneTermParams) \/ Match
SpecShapes == InitShapes /\ [][NextShapes]_vars

\* the rule matched against one resource after another, the same ones again included
InitRematch == DntInit(RematchCalls) /\ ProjectIdle /\ DeclIdle /\ ConcIdle
NextRematch == Construct(SmallParams) \/ Match \/ NextCall(RematchCalls)
SpecRematch == InitRematch /\ [][NextRematch]_vars

\* the rule matched against one well-typed resource of any of the three shapes
InitFindings == DntInit(WellTypedCalls) /\ ProjectIdle /\ DeclIdle /\ ConcIdle
NextFindings == Construct(SmallParams) \/ Match
SpecFindings == InitFindings /\ [][NextFindings]_vars

\* a project built, items added to it at any time, init called and its chain run
InitStartup ==
    ProjectInit({<<>>}) /\ StartupInit(PluginConfigs) /\ DntIdle /\ DeclIdle /\ ConcIdle
NextStartup ==
    NewProject(StartupArgs) \/ Add(DirItems) \/ CallInit \/ RunCallback(Outcomes) \/ Settle
SpecStartup == InitStartup /\ [][NextStartup]_vars

\* several calls in progress on one rule at a time, their steps interleaved in any order
InitInterleaved ==
    DntIdle /\ ProjectIdle /\ DeclIdle /\ ConcInit(InterleavedCalls, InterleavedChecks)
NextInterleaved ==
    Construct(InterleavedParams) \/ ConstructDecl(InterleavedOptions) \/ Step \/ StepRe
SpecInterleaved == InitInterleaved /\ [][NextInterleaved]_vars

\* the rule built from a term source with few or no terms, matched against one resource
\* of any shape and content
InitFewTerms == DntInit(AnyCalls) /\ ProjectIdle /\ DeclIdle /\ ConcIdle
NextFewTerms == Construct(FewParams) \/ Match
SpecFewTerms == InitFewTerms /\ [][NextFewTerms]_vars

\* the rule built from any constructor argument, then matched
InitCtor == DntInit(SomeCalls) /\ ProjectIdle /\ DeclIdle /\ ConcIdle
NextCtor == Construct(AllParams) \/ Match
SpecCtor == InitCtor /\ [][NextCtor]_vars

\* a project built from any configuration, then asked the file type of one path
InitProject == ProjectInit(AskedPaths) /\ StartupInit({Undefined}) /\ DntIdle /\ DeclIdle /\ ConcIdle
NextProject == NewProject(AllArgs) \/ GetFileTypeForPath
SpecProject == InitProject /\ [][NextProject]_vars

\* a declarative rule built from a few valid pattern lists, with any checkString
InitDeclMatch == DeclInit(AllChecks) /\ DntIdle /\ ProjectIdle /\ ConcIdle
NextDeclMatch == ConstructDecl(SomeOptions) \/ MatchString
SpecDeclMatch == InitDeclMatch /\ [][NextDeclMatch]_vars

\* a declarative rule built from any options
InitDeclCtor == DeclInit(SomeChecks) /\ DntIdle /\ ProjectIdle /\ ConcIdle
NextDeclCtor == ConstructDecl(AllOptions) \/ MatchString
SpecDeclCtor == InitDeclCtor /\ [][NextDeclCtor]_vars

(* ------------------------------- claims ------------------------------- *)

\* x occurs in s: s = pre \o x \o post for some pre and post
IsSubstring(x, s) ==
    \E i \in 0..Len(s) : \E n \in 0..(Len(s) - i) : SubSeq(s, i + 1, i + n) = x

\* the terms the rule was configured with
ConfiguredTerms == Range(TextsOf(params.terms.items))

\* how many findings of the result cite term x
FindingsCiting(x) ==
    Cardinality({i \in 1..Len(result.list) : result.list[i].highlight = Highlight(x)})

MatchedShape(shape) == rule = "ready" /\ matched /\ call.resource.type = shape

\* C1: for a string resource whose source s and target t are both text, match emits
\* exactly one finding for each configured term that occurs in s and does not occur in t,
\* and no finding for any other term.
C1_StringFindingIff ==
    (MatchedShape("string") /\ IsString(call.resource.source) /\ IsString(call.resource.target)) =>
        /\ result.defined
        /\ \A x \in Texts :
              FindingsCiting(x) =
                  IF /\ x \in ConfiguredTerms
                     /\ IsSubstring(x, call.resource.source.s)
                     /\ ~IsSubstring(x, call.resource.target.s)
                  THEN 1 ELSE 0
        /\ \A i \in 1..Len(result.list) :
              \E x \in ConfiguredTerms : result.list[i].highlight = Highlight(x)

\* a string pair with a finding for one term, and another term that the target keeps
C1_Witness ==
    /\ MatchedShape("string")
    /\ result.defined
    /\ Len(result.list) = 1
    /\ \E x \in ConfiguredTerms :
          /\ x /= <<>>
          /\ IsSubstring(x, call.resource.source.s)
          /\ IsSubstring(x, call.resource.target.s)


\* the texts of a mapping's categories, in the mapping's order
CategoryTexts(v) == TextsOf(ObjectValues(v))

\* C2: for a plural resource with well-typed mappings, match emits a finding for a
\* configured term iff some source category contains it and some target category lacks it,
\* and never more than one finding per term.
C2_PluralFindingIff ==
    (/\ MatchedShape("plural")
     /\ call.resource.source.kind = "object"
     /\ call.resource.target.kind = "object") =>
        /\ result.defined
        /\ \A x \in Texts :
              FindingsCiting(x) =
                  IF /\ x \in ConfiguredTerms
                     /\ \E s \in Range(CategoryTexts(call.resource.source)) : IsSubstring(x, s)
                     /\ \E t \in Range(CategoryTexts(call.resource.target)) : ~IsSubstring(x, t)
                  THEN 1 ELSE 0

\* a term found in the source and missing from two target categories: one finding
C2_Witness ==
    /\ MatchedShape("plural")
    /\ result.defined
    /\ Len(result.list) = 1
    /\ Len(CategoryTexts(call.resource.target)) = 2
    /\ \E x \in ConfiguredTerms :
          /\ result.list[1].highlight = Highlight(x)
          /\ \A t \in Range(CategoryTexts(call.resource.target)) : ~IsSubstring(x, t)

\* the (source, highlight) pairs of the string-shape findings of the pair (s, t), in the
\* order of the rule's term list
StringFindings(s, t) ==
    LET missing == SelectSeq(_dntTerms, LAMBDA x : IsSubstring(x, s) /\ ~IsSubstring(x, t))
    IN [i \in 1..Len(missing) |-> <<s, Highlight(missing[i])>>]

\* the (source, highlight) pairs of the latest result
ResultPairs == [i \in 1..Len(result.list) |-> <<result.list[i].source, result.list[i].highlight>>]

\* C3: for an array resource whose source and target are arrays of text, the findings are
\* the string-shape findings of (source[i], target[i]) concatenated in ascending index
\* order, with "" for target[i] beyond the target's length; target items beyond the
\* source's length change nothing.
C3_ArrayConcatenation ==
    (MatchedShape("array") /\ arrayTypeOk(call.resource.source, call.resource.target)) =>
        LET source == TextsOf(call.resource.source.items)
            target == TextsOf(call.resource.target.items)
            cut == SubSeq(call.resource.target.items, 1,
                          IF Len(target) < Len(source) THEN Len(target) ELSE Len(source))
        IN /\ result.defined
           /\ ResultPairs =
                  Flatten([i \in 1..Len(source) |->
                      StringFindings(source[i], IF i <= Len(target) THEN target[i] ELSE <<>>)])
           /\ result = match(_dntTerms,
                             [call EXCEPT !.resource.target = Arr(cut)])

\* a source longer than its target, with a finding for the item that has no target
C3_Witness ==
    /\ MatchedShape("array")
    /\ arrayTypeOk(call.resource.source, call.resource.target)
    /\ Len(call.resource.source.items) = 2
    /\ Len(call.resource.target.items) = 1
    /\ result.defined
    /\ \E i \in 1..Len(result.list) : result.list[i].source = call.resource.source.items[2].s

\* content that type-checks against the declared shape
TextValue(v) == v.kind = "string"
TextArray(v) == v.kind = "array" /\ \A i \in 1..Len(v.items) : TextValue(v.items[i])
\* an object whose keys are plural categories and whose values are text; the keys of an
\* array are its indices, never categories, so only the array without items is one
CategoryMapping(v) ==
    \/ /\ v.kind = "object"
       /\ \A i \in 1..Len(v.entries) :
             v.entries[i].k \in validPluralCategories /\ TextValue(v.entries[i].v)
    \/ v.kind = "array" /\ v.items = <<>>
WellTyped(resource) ==
    CASE resource.type = "string" -> TextValue(resource.source) /\ TextValue(resource.target)
      [] resource.type = "array" -> TextArray(resource.source) /\ TextArray(resource.target)
      [] resource.type = "plural" ->
           CategoryMapping(resource.source) /\ CategoryMapping(resource.target)
      [] OTHER -> FALSE

InvalidConfiguration(p) ==
    \/ p.hasTerms /\ ~TextArray(p.terms)
    \/ /\ ~p.hasTerms
       /\ p.hasPath
       /\ \/ p.termsFileType \notin {"json", "txt"}
          \/ /\ p.termsFileType = "json"
             /\ p.termsFilePath.exists
             /\ LET content == JSONparse(p.termsFilePath.text)
                IN ~content.ok \/ ~TextArray(content.value)

\* C5: constructing the rule from an invalid configuration throws in the constructor: no
\* rule exists afterwards and no match call is ever made on it.
C5_InvalidConfigurationThrows ==
    (rule /= "none" /\ InvalidConfiguration(params)) =>
        /\ rule = "failed"
        /\ ~matched
        /\ result = ReturnedUndefined

\* the file {"foo": 1} declared as json: construction has failed
C5_Witness ==
    /\ rule = "failed"
    /\ ~params.hasTerms
    /\ params.hasPath
    /\ params.termsFileType = "json"
    /\ params.termsFilePath = File(FooJson)


\* the positions of the mapping entries whose glob matches the asked path
MatchingEntries ==
    {i \in 1..Len(mappings.entries) : isMatch(normalize(asked), mappings.entries[i].k)}

\* the earliest-declared of them
FirstMatching == CHOOSE i \in MatchingEntries : \A j \in MatchingEntries : i <= j

\* the name the i-th mapping entry refers to: the name it gives, or else its own glob
NamedBy(i) ==
    IF mappings.entries[i].v.kind = "string" THEN mappings.entries[i].v.name
    ELSE mappings.entries[i].k

\* the file type registered under a name, the one under "unknown" when there is none
Registered(name) ==
    IF \E i \in 1..Len(filetypes) : filetypes[i].k = name
    THEN filetypes[CHOOSE i \in 1..Len(filetypes) : filetypes[i].k = name].v
    ELSE filetypes[CHOOSE i \in 1..Len(filetypes) : filetypes[i].k = "unknown"].v

Answered == project = "ready" /\ answered

SrcXJs == <<Seg("src", ""), Seg("x", "js")>>

\* C6: getFileTypeForPath resolves the path through the earliest-declared mapping entry
\* whose glob matches it, whatever later entries match: the result is the file type that
\* entry refers to, and with the mapping ["src/**" -> A, "**/*.js" -> B] the path
\* src/x.js resolves to A.
C6_FirstMatchWins ==
    /\ (Answered /\ MatchingEntries /= {}) => fileType = Registered(NamedBy(FirstMatching))
    /\ (/\ Answered
        /\ asked = SrcXJs
        /\ mappings.entries = <<[k |-> "src/**", v |-> NameRef("A")],
                                [k |-> "**/*.js", v |-> NameRef("B")]>>
        /\ \E i \in 1..Len(filetypes) : filetypes[i].k = "A") =>
            fileType.name = "A"

\* src/x.js asked of the mapping ["src/**" -> A, "**/*.js" -> B], A and B both registered
C6_Witness ==
    /\ Answered
    /\ asked = SrcXJs
    /\ mappings.entries = <<[k |-> "src/**", v |-> NameRef("A")],
                            [k |-> "**/*.js", v |-> NameRef("B")]>>
    /\ \E i \in 1..Len(filetypes) : filetypes[i].k = "A"
    /\ \E i \in 1..Len(filetypes) : filetypes[i].k = "B"
    /\ MatchingEntries = {1, 2}
    /\ fileType.name = "A"


\* entry i is enumerated before entry j: keys that are array indices come first, in
\* ascending order, and the other keys follow in declaration order
EnumeratedBefore(i, j) ==
    LET a == arrayIndex(mappings.entries[i].k)
        b == arrayIndex(mappings.entries[j].k)
    IN IF a >= 0 /\ b >= 0 THEN a < b
       ELSE IF a >= 0 \/ b >= 0 THEN a >= 0
       ELSE i < j

\* the first enumerated entry whose glob matches refers by name to a file type that is
\* not registered
Dangling ==
    \E i \in MatchingEntries :
        /\ \A j \in MatchingEntries \ {i} : EnumeratedBefore(i, j)
        /\ mappings.entries[i].v.kind = "string"
        /\ \A n \in 1..Len(filetypes) : filetypes[n].k /= mappings.entries[i].v.name

\* the configuration defines a file type of this name itself: under config.filetypes, or
\* inline under config.paths
Redefined(name) ==
    \/ \E i \in 1..Len(args.filetypes.entries) : args.filetypes.entries[i].k = name
    \/ \E i \in 1..Len(args.paths.entries) :
          args.paths.entries[i].k = name /\ args.paths.entries[i].v.kind = "object"

BuiltinDefinition(name) ==
    IF name = "xliff" THEN xliffFileTypeDefinition ELSE unknownFileTypeDefinition

UserDefinition(name) ==
    LET paths == args.paths.entries
        types == args.filetypes.entries
    IN IF \E i \in 1..Len(paths) : paths[i].k = name /\ paths[i].v.kind = "object"
       THEN paths[CHOOSE i \in 1..Len(paths) : paths[i].k = name].v.def
       ELSE types[CHOOSE i \in 1..Len(types) : types[i].k = name].v

FindingsOf(i) ==
    IF checks[i].kind = "undefined" THEN <<>>
    ELSE SelectSeq(checks[i].items, LAMBDA r : r /= Falsy)

\* C9: matchString invokes checkString once per compiled pattern, in pattern-list order,
\* and returns the findings of all the calls in that order with the falsy entries
\* dropped, or undefined when there is none; it never returns an empty list.
C9_ConcatFilterOrUndefined ==
    (decl = "ready" /\ declMatched) =>
        LET expected == Flatten([i \in 1..Len(re) |-> FindingsOf(i)])
        IN /\ invoked = re
           /\ declResult.defined <=> expected /= <<>>
           /\ declResult.list = expected
           /\ declResult.defined => Len(declResult.list) > 0

\* two patterns: the first call returns a list with a falsy entry and a finding, the
\* second a single finding; both findings come back, in pattern order
C9_Witness ==
    /\ decl = "ready"
    /\ declMatched
    /\ Len(re) = 2
    /\ checks[1].kind = "array"
    /\ Len(checks[1].items) = 2
    /\ checks[1].items[1] = Falsy
    /\ checks[2].kind = "result"
    /\ declResult.defined
    /\ declResult.list = <<checks[1].items[2], checks[2].items[1]>>

\* how many of the first n characters of a pattern are c
CountOf(pattern, c, n) == Cardinality({i \in 1..n : pattern[i] = c})

\* a syntactically valid pattern over a ( ) *: the parentheses balance, and every "*"
\* follows a letter or a closed group
ValidPattern(pattern) ==
    /\ \A n \in 1..Len(pattern) : CountOf(pattern, ")", n) <= CountOf(pattern, "(", n)
    /\ CountOf(pattern, ")", Len(pattern)) = CountOf(pattern, "(", Len(pattern))
    /\ \A i \in 1..Len(pattern) :
          pattern[i] = "*" => (i > 1 /\ pattern[i - 1] \in {"a", ")"})

\* a required construction parameter is missing
MissingOptions(o) ==
    \/ ~o.defined
    \/ ~o.hasRegexps
    \/ o.version = 2 /\ (o.name = "" \/ o.description = "" \/ o.note = "")

\* C10: construction fails, leaving no rule, when a pattern of the list is not a valid
\* pattern or a required parameter is missing; once it succeeds there are as many
\* compiled patterns as pattern strings, and every one of them compiled.
C10_InvalidOptionsThrow ==
    decl /= "none" =>
        /\ (\/ MissingOptions(options)
            \/ \E i \in 1..Len(options.regexps) : ~ValidPattern(options.regexps[i])) =>
               (decl = "failed" /\ re = <<>> /\ ~declMatched)
        /\ decl = "ready" =>
               /\ Len(re) = Len(options.regexps)
               /\ \A i \in 1..Len(re) : ~re[i].threw /\ re[i].source = options.regexps[i]

\* a complete set of options whose second pattern does not compile: no rule
C10_Witness ==
    /\ decl = "failed"
    /\ ~MissingOptions(options)
    /\ options.version = 2
    /\ Len(options.regexps) = 2
    /\ ValidPattern(options.regexps[1])
    /\ ~ValidPattern(options.regexps[2])


\* the terms a configuration supplies, as the claims read them: the items of the explicit
\* list, the strings of the json array, the trimmed lines of the txt file; none when the
\* configuration names no source
RECURSIVE LinesOf(_)
LinesOf(text) ==
    IF \A i \in 1..Len(text) : text[i] \notin LineBreaks THEN <<text>>
    ELSE LET n == CHOOSE i \in 1..Len(text) :
                      text[i] \in LineBreaks /\ \A j \in 1..(i - 1) : text[j] \notin LineBreaks
         IN <<SubSeq(text, 1, n - 1)>> \o LinesOf(SubSeq(text, n + 1, Len(text)))

Trimmed(line) ==
    LET inked == {i \in 1..Len(line) : line[i] \notin Blanks}
    IN IF inked = {} THEN <<>>
       ELSE SubSeq(line, CHOOSE i \in inked : \A j \in inked : i <= j,
                         CHOOSE i \in inked : \A j \in inked : j <= i)

SuppliedTerms(p) ==
    IF p.hasTerms THEN Range(TextsOf(p.terms.items))
    ELSE IF ~p.hasPath THEN {}
    ELSE IF p.termsFileType = "json"
         THEN Range(TextsOf(JSONparse(p.termsFilePath.text).value.items))
    ELSE {Trimmed(l) : l \in Range(LinesOf(p.termsFilePath.text))}

\* C11: a rule constructed with neither an explicit list nor a file reference, or from a
\* source with no non-empty term, has an empty term list, and match on a rule with an
\* empty term list yields no finding, whatever the resource's shape and content.
C11_NoTermsNoFindings ==
    rule = "ready" =>
        /\ (\A x \in SuppliedTerms(params) : x = <<>>) => _dntTerms = <<>>
        /\ (_dntTerms = <<>> /\ matched) => result.list = <<>>

\* a rule built from terms that are all empty, matched against a well-typed plural
\* resource whose source has text: an empty list of findings
C11_Witness ==
    /\ rule = "ready"
    /\ SuppliedTerms(params) = {<<>>}
    /\ _dntTerms = <<>>
    /\ MatchedShape("plural")
    /\ result.defined
    /\ result.list = <<>>
    /\ call.resource.source.kind = "object"
    /\ \E i \in 1..Len(call.resource.source.entries) :
          call.resource.source.entries[i].v = Str(<<"a">>)


\* C12: whenever match is called on the resource of the first call again, whatever was
\* matched in between, it returns the findings of the first call, in the same order; and
\* no match call changes the rule's term list or the resource it is given.
C12_MatchIdempotent ==
    /\ []((rule = "ready" /\ matched /\ history.seen /\ call = history.call) =>
              result = history.result)
    /\ [][(rule = "ready" /\ matched' /\ call' = pending) =>
              (_dntTerms' = _dntTerms /\ pending' = pending /\ call'.resource = pending.resource)]_vars

\* a resource with a finding, matched, then another resource matched, then the first one
\* matched again with the same finding
C12_Witness ==
    /\ rule = "ready"
    /\ matched
    /\ history.since = "again"
    /\ call = history.call
    /\ Len(result.list) > 0
    /\ result = history.result


\* the source text a finding for term x must cite, by the shape of the matched resource
CitesSourceOf(finding, x) ==
    LET source == call.resource.source
        target == call.resource.target
    IN CASE call.resource.type = "string" -> finding.source = source.s
         [] call.resource.type = "array" ->
              \E i \in 1..Len(source.items) :
                  /\ finding.source = source.items[i].s
                  /\ IsSubstring(x, source.items[i].s)
                  /\ i <= Len(target.items) => ~IsSubstring(x, target.items[i].s)
         [] OTHER ->
              \E i \in 1..Len(source.entries) :
                  /\ finding.source = source.entries[i].v.s
                  /\ IsSubstring(x, source.entries[i].v.s)
                  /\ \A j \in 1..(i - 1) : ~IsSubstring(x, source.entries[j].v.s)

\* C13: every finding of match carries the resource's key as id, the given file as
\* pathName, the given locale, severity error, and for some configured term x the
\* highlight "Missing term: <e0>x</e0>" and as source the text x was found in: the
\* source string, the source item at the index concerned, or the first source category
\* that contains x.
C13_FindingFields ==
    (rule = "ready" /\ matched /\ result.defined) =>
        \A n \in 1..Len(result.list) :
            LET finding == result.list[n]
            IN /\ finding.id = call.resource.key
               /\ finding.pathName = call.file
               /\ finding.locale = call.locale
               /\ finding.severity = "error"
               /\ \E x \in ConfiguredTerms :
                     /\ x /= <<>>
                     /\ finding.highlight = Highlight(x)
                     /\ CitesSourceOf(finding, x)

\* a plural resource with two source categories that contain the term, in different
\* texts: the finding cites the first one
C13_Witness ==
    /\ MatchedShape("plural")
    /\ result.defined
    /\ Len(result.list) = 1
    /\ Len(call.resource.source.entries) = 2
    /\ call.resource.source.entries[1].v /= call.resource.source.entries[2].v
    /\ \E x \in ConfiguredTerms :
          /\ result.list[1].highlight = Highlight(x)
          /\ IsSubstring(x, call.resource.source.entries[1].v.s)
          /\ IsSubstring(x, call.resource.source.entries[2].v.s)
    /\ result.list[1].source = call.resource.source.entries[1].v.s
    /\ result.list[1].id = "k2"

\* C14: calls in progress on one rule at the same time do not disturb each other.
\* Whatever the order in which their steps run, a match call that has returned has
\* returned what the same call returns when it runs alone, and so has a matchString
\* call; and no step of either writes the term set or the compiled pattern list.
C14_InterleavedAsAlone ==
    /\ [](\A c \in Callers :
              /\ frames[c].pc = "returned" =>
                     frames[c].returned = match(_dntTerms, frames[c].call)
              /\ declFrames[c].pc = "returned" =>
                     declFrames[c].returned = matchString(re, declFrames[c].checks).returned)
    /\ [][(frames' /= frames \/ declFrames' /= declFrames) =>
              (_dntTerms' = _dntTerms /\ re' = re)]_vars

\* every caller's call has returned findings, the calls being on different resources
\* and the findings of one caller not those of another
C14_Witness ==
    /\ \A c \in Callers : frames[c].pc = "returned" /\ Len(frames[c].returned.list) > 0
    /\ \A c, d \in Callers :
          c /= d => /\ frames[c].call.resource /= frames[d].call.resource
                    /\ frames[c].returned /= frames[d].returned
    /\ Len(_dntTerms) > 1

\* the steps init is to run, by the item they are about: 0 is the loading of the plugins,
\* due when plugins are configured, and i is the init of the i-th item added before the
\* call, due when the item has an init method
Due(i) ==
    IF i = 0 THEN plugins /= Undefined
    ELSE initLog.files[i].init = "function"
Before(n, what, item) == \E m \in 1..(n - 1) : initLog.events[m] = Event(what, item)
Failed == \E n \in 1..Len(initLog.events) : initLog.events[n].what = "fail"

\* C15: init runs its steps as one chain. A step starts only when it is due, has not
\* started before, every due step before it (the loading of the plugins first, then the
\* items in the order they were added) has completed, and no step has failed; once a
\* step has failed the promise init returned is rejected, and when that promise is
\* fulfilled every due step has completed.
C15_OrderedChain ==
    initCalled =>
        /\ \A n \in 1..Len(initLog.events) :
               initLog.events[n].what = "start" =>
                   LET j == initLog.events[n].item
                   IN /\ j \in 0..Len(initLog.files)
                      /\ Due(j)
                      /\ ~Before(n, "start", j)
                      /\ \A i \in 0..(j - 1) : Due(i) => Before(n, "done", i)
                      /\ \A m \in 1..(n - 1) : initLog.events[m].what /= "fail"
        /\ Failed => promiseState(chain, status) = "rejected"
        /\ promiseState(chain, status) = "fulfilled" =>
               \A i \in 0..Len(initLog.files) :
                   Due(i) => Before(Len(initLog.events) + 1, "done", i)

\* plugins are configured and every item added has an init method: the plugins are
\* loaded, the first item is initialized, and the init of the last but one fails; the
\* init of the last item is never started, and the promise is rejected
C15_Witness ==
    /\ initCalled
    /\ Len(initLog.files) = MaxFiles
    /\ \A i \in 0..MaxFiles : Due(i)
    /\ status[1] = "fulfilled"
    /\ status[2] = "fulfilled"
    /\ initLog.events[Len(initLog.events)] = Event("fail", MaxFiles - 1)
    /\ ~Before(Len(initLog.events) + 1, "start", MaxFiles)
    /\ promiseState(chain, status) = "rejected"

\* C16: the term list of a rule constructed from an explicit list, a json file or a txt
\* file holds no empty term and no term twice, and its terms are exactly the non-empty
\* terms supplied (for a txt file: the trimmed lines that are not blank); nothing done
\* with the rule afterwards changes the list.
C16_TermSet ==
    /\ [](rule = "ready" =>
              /\ \A n \in 1..Len(_dntTerms) : _dntTerms[n] /= <<>>
              /\ Distinct(_dntTerms)
              /\ Range(_dntTerms) = SuppliedTerms(params) \ {<<>>})
    /\ [][rule = "ready" => _dntTerms' = _dntTerms]_vars

\* a rule built from a txt file in which one term stands on two lines, once with a blank
\* before it, followed by an empty line, and matched since
C16_Witness ==
    /\ rule = "ready"
    /\ matched
    /\ ~params.hasTerms
    /\ params.termsFileType = "txt"
    /\ Len(_dntTerms) = 1
    /\ LET lines == LinesOf(params.termsFilePath.text)
       IN /\ Len(lines) > 2
          /\ lines[1] /= lines[2]
          /\ Trimmed(lines[1]) = Trimmed(lines[2])
          /\ lines[Len(lines)] = <<>>

====
